---------------------------- MODULE Spec2Model ----------------------------
(***************************************************************************)
(* Model of custom_components/tgtg/sensor.py: the TGTG platform setup,     *)
(* the data update coordinator's fetch cycle and the sensor projections.   *)
(*                                                                         *)
(* Python values are tagged records: None, int, str, dict and list.  A     *)
(* payload dict is a function from field names to values; the snapshot     *)
(* dict is a function from listing identifiers (str or int values) to      *)
(* payloads.  A computation that may raise yields either Ok(v) or          *)
(* Raise(type, msg).                                                       *)
(***************************************************************************)
EXTENDS Integers, Sequences, FiniteSets, TLC

VARIABLES
    items,          \* TGTGDataUpdateCoordinator.items (config "item")
    data,           \* DataUpdateCoordinator.data: None or the snapshot dict
    last_update,    \* outcome of the last finished cycle: "none", "ok" or the UpdateFailed error
    pc,             \* position of the setup / refresh task
    local,          \* the dict `data` under construction in _async_update_data
    idx,            \* position of the explicit loop over self.items
    resp,           \* upstream responses received in the running cycle
    last_resp,      \* upstream responses of the cycle that produced `data`
    answer,         \* what the upstream call of the step just taken answered, if it made one
    repeated,       \* whether the cycle that produced `data` got the responses of the one before
    setup,          \* outcome of async_setup_platform: "pending", "done" or the raised error
    entities,       \* sensors handed to add_entities, in order
    ticks,          \* periodic refreshes started so far
    observed        \* what the sensor read of the step just taken returned, if it was one

vars == <<items, data, last_update, pc, local, idx, resp, last_resp,
          answer, repeated, setup, entities, ticks, observed>>

---------------------------------------------------------------------------
(* Bounds of the model *)

MaxItems == 2
MaxFavorites == 2
MaxTicks == 1
MaxOrders == 3

---------------------------------------------------------------------------
(* Python values *)

NoneV == [t |-> "none"]
IntV(n) == [t |-> "int", i |-> n]
StrV(s) == [t |-> "str", s |-> s]
DictV(f) == [t |-> "dict", d |-> f]
ListV(q) == [t |-> "list", l |-> q]

Ok(v) == [ok |-> TRUE, v |-> v]
Raise(type, msg) == [ok |-> FALSE, exc |-> [type |-> type, msg |-> msg]]

EmptyDict == DictV(<<>>)

\* d[k] = v on a function used as a dict
Put(f, k, v) == [x \in DOMAIN f \cup {k} |-> IF x = k THEN v ELSE f[x]]

Digit(n) ==
    CASE n = 0 -> "0" [] n = 1 -> "1" [] n = 2 -> "2" [] n = 3 -> "3"
      [] n = 4 -> "4" [] n = 5 -> "5" [] n = 6 -> "6" [] n = 7 -> "7"
      [] n = 8 -> "8" [] n = 9 -> "9"

RECURSIVE DecimalOf(_)
DecimalOf(n) == IF n < 10 THEN Digit(n) ELSE DecimalOf(n \div 10) \o Digit(n % 10)

\* the integers whose decimal numeral int() is asked to parse in the model
MaxInt == 30

\* str(x)
ToStr(x) ==
    CASE x.t = "str" -> x.s
      [] x.t = "int" -> IF x.i < 0 THEN "-" \o DecimalOf(-x.i) ELSE DecimalOf(x.i)
      [] x.t = "none" -> "None"

\* repr(x), as it appears in a KeyError message
PyRepr(x) == IF x.t = "str" THEN "'" \o x.s \o "'" ELSE ToStr(x)

\* int(x)
ToInt(x) ==
    CASE x.t = "int" -> Ok(x.i)
      [] x.t = "str" ->
            IF \E n \in 0..MaxInt : DecimalOf(n) = x.s
            THEN Ok(CHOOSE n \in 0..MaxInt : DecimalOf(n) = x.s)
            ELSE Raise("ValueError", "invalid literal for int() with base 10: '" \o x.s \o "'")
      [] OTHER -> Raise("TypeError", "int() argument must be a string or a real number")

\* x == y for the values of the model (values of different types are unequal)
PyEq(x, y) == x = y

\* x[k] for a field name k
GetField(x, k) ==
    CASE x.t = "dict" ->
            IF k \in DOMAIN x.d THEN Ok(x.d[k]) ELSE Raise("KeyError", "'" \o k \o "'")
      [] x.t = "str" -> Raise("TypeError", "string indices must be integers")
      [] x.t = "list" -> Raise("TypeError", "list indices must be integers or slices, not str")
      [] OTHER -> Raise("TypeError", "object is not subscriptable")

\* the affixes a field name of the model can carry around another one
Affixes == {"", "s", "_id", "item_"}

\* needle in hay, for two strings
StrContains(needle, hay) ==
    \E a \in Affixes, b \in Affixes : a \o needle \o b = hay

\* k in x for a field name k
HasField(k, x) ==
    CASE x.t = "dict" -> Ok(k \in DOMAIN x.d)
      [] x.t = "str" -> Ok(StrContains(k, x.s))
      [] OTHER -> Raise("TypeError", "argument is not iterable")

\* the keys of a function, in a fixed order (Python keeps insertion order; the order
\* does not matter where the model iterates a dict)
RECURSIVE SeqOfSet(_)
SeqOfSet(S) ==
    IF S = {} THEN <<>>
    ELSE LET e == CHOOSE e \in S : TRUE IN <<e>> \o SeqOfSet(S \ {e})

\* iter(x): the sequence a for loop over x runs through.  A dict yields its keys; the
\* only str the program ever iterates is the empty orders placeholder.
PyIter(x) ==
    CASE x.t = "list" -> Ok(x.l)
      [] x.t = "dict" -> Ok([j \in 1..Cardinality(DOMAIN x.d) |->
                                 StrV(SeqOfSet(DOMAIN x.d)[j])])
      [] x.t = "str" /\ x.s = "" -> Ok(<<>>)
      [] OTHER -> Raise("TypeError", "object is not iterable")


\* r, then F on its value unless r raised
Bind(r, F(_)) == IF r.ok THEN F(r.v) ELSE r

\* try: r  except (types): fallback
Except(r, types, fallback) ==
    IF r.ok \/ r.exc.type \notin types THEN r ELSE Ok(fallback)

---------------------------------------------------------------------------
(* const.py *)

ATTR_ITEM_ID == "item_id"
ATTR_ITEM_URL == "item_url"
ATTR_PRICE == "item_price"
ATTR_VALUE == "original_value"
ATTR_PICKUP_START == "pickup_start"
ATTR_PICKUP_END == "pickup_end"
ATTR_SOLDOUT_TIMESTAMP == "soldout_timestamp"
ATTR_ORDERS_PLACED == "orders_placed"
ATTR_TOTAL_QUANTITY_ORDERED == "total_quantity_ordered"
ATTR_PICKUP_WINDOW_CHANGED == "pickup_window_changed"
ATTR_CANCEL_UNTIL == "cancel_until"
ATTR_LOGO_URL == "logo_url"
ATTR_COVER_URL == "cover_url"

---------------------------------------------------------------------------
(* TGTGSensor: the projections of the snapshot *)

\* coordinator.data[key]
SnapGet(d, key) ==
    CASE d.t = "dict" ->
            IF key \in DOMAIN d.d THEN Ok(d.d[key]) ELSE Raise("KeyError", PyRepr(key))
      [] OTHER -> Raise("TypeError", "'NoneType' object is not subscriptable")

\* key in coordinator.data
SnapHas(key, d) ==
    CASE d.t = "dict" -> Ok(key \in DOMAIN d.d)
      [] OTHER -> Raise("TypeError", "argument of type 'NoneType' is not iterable")

\* coordinator.data.get("orders", [])
SnapOrders(d) ==
    IF StrV("orders") \in DOMAIN d.d THEN d.d[StrV("orders")] ELSE ListV(<<>>)

RECURSIVE Pow10(_)
Pow10(n) == IF n = 0 THEN 1 ELSE 10 * Pow10(n - 1)

\* the w low decimal digits of n, zero padded
RECURSIVE Padded(_, _)
Padded(n, w) == IF w = 0 THEN "" ELSE Padded(n \div 10, w - 1) \o Digit(n % 10)

\* the fraction n / 10^w without its trailing zeros; "0" when nothing is left
RECURSIVE Fraction(_, _)
Fraction(n, w) ==
    IF w = 0 THEN "0"
    ELSE IF n % 10 = 0 THEN Fraction(n \div 10, w - 1)
    ELSE Padded(n, w)

\* str(n / pow(10, d)) for n >= 0, d >= 0: the float's shortest decimal numeral
QuotientStr(n, d) ==
    DecimalOf(n \div Pow10(d)) \o "." \o Fraction(n % Pow10(d), d)

\* str(int(m["minor_units"]) / pow(10, int(m["decimals"]))) + " " + m["code"]
Money(m) ==
    Bind(GetField(m, "minor_units"), LAMBDA mu :
    Bind(ToInt(mu), LAMBDA n :
    Bind(GetField(m, "decimals"), LAMBDA de :
    Bind(ToInt(de), LAMBDA k :
    Bind(GetField(m, "code"), LAMBDA code :
        IF code.t = "str"
        THEN Ok(StrV(QuotientStr(n, k) \o " " \o code.s))
        ELSE Raise("TypeError", "can only concatenate str to str"))))))

\* if "item_id" in item: data[ATTR_ITEM_ID] = ...; data[ATTR_ITEM_URL] = ...
ItemIdAttrs(item, a) ==
    Bind(HasField("item_id", item), LAMBDA has :
        IF ~has THEN Ok(a)
        ELSE Bind(GetField(item, "item_id"), LAMBDA id :
            Ok(Put(Put(a, ATTR_ITEM_ID, id), ATTR_ITEM_URL,
                   StrV("https://share.toogoodtogo.com/item/" \o ToStr(id))))))

\* the variant that guards the parts of an amount too: an amount with a missing part
\* is skipped and the derivation goes on
MoneyAttrLenient(item, field, attr, a) ==
    Bind(HasField(field, item), LAMBDA has :
        IF ~has THEN Ok(a)
        ELSE Bind(GetField(item, field), LAMBDA m :
             Bind(Except(Money(m), {"KeyError"}, NoneV), LAMBDA text :
                  IF text = NoneV THEN Ok(a) ELSE Ok(Put(a, attr, text)))))

\* if field in item: data[attr] = <money string of item[field]>
MoneyAttr(item, field, attr, a) ==
    Bind(HasField(field, item), LAMBDA has :
        IF ~has THEN Ok(a)
        ELSE Bind(GetField(item, field), LAMBDA m :
             Bind(Money(m), LAMBDA text : Ok(Put(a, attr, text)))))

\* if field in item: data[attr] = item[field]["current_url"]
PictureAttr(item, field, attr, a) ==
    Bind(HasField(field, item), LAMBDA has :
        IF ~has THEN Ok(a)
        ELSE Bind(GetField(item, field), LAMBDA pic :
             Bind(GetField(pic, "current_url"), LAMBDA url : Ok(Put(a, attr, url)))))

\* if "item" in tgtg_answer: ...
ItemAttrs(ans, a) ==
    Bind(HasField("item", ans), LAMBDA has :
        IF ~has THEN Ok(a)
        ELSE Bind(GetField(ans, "item"), LAMBDA item :
             Bind(ItemIdAttrs(item, a), LAMBDA a1 :
             Bind(MoneyAttr(item, "item_price", ATTR_PRICE, a1), LAMBDA a2 :
             Bind(MoneyAttr(item, "item_value", ATTR_VALUE, a2), LAMBDA a3 :
             Bind(PictureAttr(item, "logo_picture", ATTR_LOGO_URL, a3), LAMBDA a4 :
                  PictureAttr(item, "cover_picture", ATTR_COVER_URL, a4)))))))

\* if field in container: data[attr] = container[field]
CopyAttr(container, field, attr, a) ==
    Bind(HasField(field, container), LAMBDA has :
        IF ~has THEN Ok(a)
        ELSE Bind(GetField(container, field), LAMBDA v : Ok(Put(a, attr, v))))

\* if "pickup_interval" in tgtg_answer: ...
PickupAttrs(ans, a) ==
    Bind(HasField("pickup_interval", ans), LAMBDA has :
        IF ~has THEN Ok(a)
        ELSE Bind(GetField(ans, "pickup_interval"), LAMBDA pi :
             Bind(CopyAttr(pi, "start", ATTR_PICKUP_START, a), LAMBDA a1 :
                  CopyAttr(pi, "end", ATTR_PICKUP_END, a1))))

\* the bug of assigning the quantity instead of adding it
AddQuantityAssigned(total, q) ==
    IF q.t = "int" THEN Ok(q.i)
    ELSE Raise("TypeError", "unsupported operand type(s) for +=")

\* total_quantity_ordered += order["quantity"]
AddQuantity(total, q) ==
    IF q.t = "int" THEN Ok(total + q.i)
    ELSE Raise("TypeError", "unsupported operand type(s) for +=")

\* the body of `for order in tgtg_orders` on the loop state st = [placed, total, a]
OrderStep(order, item_id, st) ==
    Bind(HasField("item_id", order), LAMBDA has :
        IF ~has THEN Ok(st)
        ELSE Bind(GetField(order, "item_id"), LAMBDA oid :
            IF ~PyEq(oid, StrV(ToStr(item_id))) THEN Ok(st)
            ELSE
            Bind(HasField("quantity", order), LAMBDA hq :
            Bind(IF hq THEN Bind(GetField(order, "quantity"),
                                 LAMBDA q : AddQuantity(st.total, q))
                 ELSE Ok(st.total), LAMBDA total :
            Bind(CopyAttr(order, "pickup_window_changed",
                          ATTR_PICKUP_WINDOW_CHANGED, st.a), LAMBDA a1 :
            Bind(CopyAttr(order, "cancel_until", ATTR_CANCEL_UNTIL, a1), LAMBDA a2 :
                Ok([placed |-> st.placed + 1, total |-> total, a |-> a2])))))))

\* the loop over the orders from position j on
RECURSIVE OrdersLoop(_, _, _, _)
OrdersLoop(seq, j, item_id, st) ==
    IF j > Len(seq) THEN Ok(st)
    ELSE Bind(OrderStep(seq[j], item_id, st),
              LAMBDA st1 : OrdersLoop(seq, j + 1, item_id, st1))

\* lines 248-262: count the orders of this listing and sum their quantities
OrdersAttrs(orders, item_id, a) ==
    Bind(PyIter(orders), LAMBDA seq :
    Bind(OrdersLoop(seq, 1, item_id, [placed |-> 0, total |-> 0, a |-> a]), LAMBDA st :
        LET a1 == Put(st.a, ATTR_ORDERS_PLACED, IntV(st.placed))
        IN  Ok(IF st.total > 0
               THEN Put(a1, ATTR_TOTAL_QUANTITY_ORDERED, IntV(st.total))
               ELSE a1)))

\* TGTGSensor.native_value
native_value(d, item_id) ==
    Except(Bind(SnapGet(d, item_id), LAMBDA ans : GetField(ans, "items_available")),
           {"KeyError", "TypeError"}, NoneV)

\* TGTGSensor.extra_state_attributes; the attribute dict is a function of attribute names
extra_state_attributes(d, item_id) ==
    Except(
        Bind(SnapGet(d, item_id), LAMBDA ans :
        Bind(ItemAttrs(ans, <<>>), LAMBDA a1 :
        Bind(PickupAttrs(ans, a1), LAMBDA a2 :
        Bind(CopyAttr(ans, "sold_out_at", ATTR_SOLDOUT_TIMESTAMP, a2), LAMBDA a3 :
             OrdersAttrs(SnapOrders(d), item_id, a3))))),
        {"KeyError", "TypeError"}, <<>>)

\* TGTGSensor.__init__: the sensor, or the error the constructor raises
TGTGSensor(d, item_id) ==
    Bind(SnapGet(d, item_id), LAMBDA ans :
    Bind(GetField(ans, "display_name"), LAMBDA name :
        Ok([item_id |-> item_id, store_name |-> name])))


---------------------------------------------------------------------------
(* The upstream client: what get_item and get_favorites can answer *)

GoodMoney == DictV([minor_units |-> IntV(250), decimals |-> IntV(2), code |-> StrV("EUR")])
Picture == DictV([current_url |-> StrV("https://img/x.png")])

Full42 ==
    DictV([display_name |-> StrV("Bakery X"), items_available |-> IntV(3),
           item |-> DictV([item_id |-> StrV("42"), item_price |-> GoodMoney,
                           item_value |-> GoodMoney, logo_picture |-> Picture,
                           cover_picture |-> Picture]),
           pickup_interval |-> DictV([start |-> StrV("18:00"), end |-> StrV("19:00")]),
           sold_out_at |-> StrV("17:00")])

Plain7 ==
    DictV([display_name |-> StrV("Bakery X"), items_available |-> IntV(0),
           item |-> DictV([item_id |-> StrV("7")])])

\* a listing without display_name
NoName42 == DictV([items_available |-> IntV(1), item |-> DictV([item_id |-> StrV("42")])])

\* a price whose minor_units is not a numeral
BadPrice7 ==
    DictV([display_name |-> StrV("Bakery X"), items_available |-> IntV(2),
           item |-> DictV([item_id |-> StrV("7"),
                           item_price |-> DictV([minor_units |-> StrV("abc"),
                                                 decimals |-> IntV(2),
                                                 code |-> StrV("EUR")])]),
           sold_out_at |-> StrV("17:00")])

\* a favorite without item.item_id (and without items_available)
NoItemId == DictV([display_name |-> StrV("Bakery X"), item |-> EmptyDict])

\* a favorite whose identifier is the string "orders"
Orders9 == DictV([display_name |-> StrV("Bakery X"), items_available |-> IntV(9),
                  item |-> DictV([item_id |-> StrV("orders")])])

\* what get_item answers with
ItemPayloads == {Full42, NoName42, BadPrice7}

\* the entries of what get_favorites answers with
FavoritePayloads == {Full42, NoName42, BadPrice7, NoItemId, Orders9}

ApiError == Raise("TgtgAPIError", "429 Too Many Requests")

RECURSIVE SeqsUpTo(_, _)
SeqsUpTo(S, n) ==
    IF n = 0 THEN {<<>>}
    ELSE LET shorter == SeqsUpTo(S, n - 1)
         IN  shorter \cup {Append(q, e) : q \in {r \in shorter : Len(r) = n - 1}, e \in S}

\* tgtg_client.get_item(item_id)
GetItemResponses == {Ok(p) : p \in ItemPayloads} \cup {ApiError}

\* tgtg_client.get_favorites()
GetFavoritesResponses ==
    {Ok(ListV(q)) : q \in SeqsUpTo(FavoritePayloads, MaxFavorites)} \cup {Ok(NoneV), ApiError}

\* the values of config[CONF_ITEM]: a list of identifiers, or [""] for the favorites
ListingIds == {StrV("42"), StrV("7"), StrV("orders")}
Favorites == <<StrV("")>>
ItemConfigs == SeqsUpTo(ListingIds, MaxItems) \cup {Favorites}

---------------------------------------------------------------------------
(* The snapshot dict: its mapping d and its keys in insertion order o *)

NewDict == [t |-> "dict", d |-> <<>>, o |-> <<>>]

\* data[key] = value
SnapPut(s, key, value) ==
    [t |-> "dict", d |-> Put(s.d, key, value),
     o |-> IF key \in DOMAIN s.d THEN s.o ELSE Append(s.o, key)]

\* dict equality: the same keys with the same values, in any order
DictEq(a, b) == a.t = b.t /\ (a.t = "dict" => a.d = b.d)

ORDERS == StrV("orders")


---------------------------------------------------------------------------
(* TGTGDataUpdateCoordinator._async_update_data *)

NoError == [type |-> "", msg |-> ""]
NoRead == [kind |-> "none"]
NoAnswer == [kind |-> "none"]

\* self.items != [""]
Explicit == items # Favorites

\* the bug of starting from the coordinator's current snapshot instead of a new dict
InitialDataKept ==
    IF data.t = "dict" THEN SnapPut(data, ORDERS, StrV(""))
    ELSE SnapPut(NewDict, ORDERS, StrV(""))

\* data = {}; data["orders"] = ""
InitialData == SnapPut(NewDict, ORDERS, StrV(""))

\* data[item_id] = item_data
StoreItem(loc, item_id, item_data) == SnapPut(loc, item_id, item_data)

\* item["item"]["item_id"]
FavoriteKey(item) ==
    Bind(GetField(item, "item"), LAMBDA it : GetField(it, "item_id"))

\* for item in favorites: data[item["item"]["item_id"]] = item, from position j on
RECURSIVE StoreFavorites(_, _, _)
StoreFavorites(loc, seq, j) ==
    IF j > Len(seq) THEN Ok(loc)
    ELSE Bind(FavoriteKey(seq[j]),
              LAMBDA key : StoreFavorites(SnapPut(loc, key, seq[j]), seq, j + 1))

\* the bug of returning only the entries that differ from the current snapshot
ReturnChanged(loc) ==
    IF data.t # "dict" THEN loc
    ELSE LET changed(k) == k \notin DOMAIN data.d \/ data.d[k] # loc.d[k]
         IN  [t |-> "dict", d |-> [k \in {x \in DOMAIN loc.d : changed(x)} |-> loc.d[k]],
              o |-> SelectSeq(loc.o, changed)]

\* return data
ReturnData(loc) == loc

\* the bug of dropping the cause from the message
UpdateFailedBare(err) ==
    [status |-> "failed", msg |-> "Error communicating with TGTG API"]

\* raise UpdateFailed(f"Error communicating with TGTG API: {err}")
UpdateFailed(err) ==
    [status |-> "failed", msg |-> "Error communicating with TGTG API: " \o err.msg]

\* the bug of building the snapshot in the dict the coordinator already exposes
DataAliased(old, loc) == loc

\* what coordinator.data refers to while the cycle writes into its own dict
DataDuringCycle(old, loc) == old

\* where the task goes when the refresh is over: on to the entities during
\* platform setup, back to waiting for the timer afterwards
AfterRefresh == IF setup.status = "pending" THEN "entities" ELSE "idle"

\* DataUpdateCoordinator.async_refresh, the cycle returned `result`
Published(result, responses) ==
    /\ data' = result
    /\ last_update' = [status |-> "ok", msg |-> ""]
    /\ last_resp' = responses
    /\ repeated' = (data.t = "dict" /\ responses = last_resp)
    /\ pc' = AfterRefresh
    /\ local' = NewDict
    /\ idx' = 0
    /\ resp' = <<>>

\* DataUpdateCoordinator.async_refresh, the cycle raised UpdateFailed for `err`
Failed(err) ==
    /\ data' = data
    /\ last_update' = UpdateFailed(err)
    /\ pc' = AfterRefresh
    /\ local' = NewDict
    /\ idx' = 0
    /\ resp' = <<>>
    /\ UNCHANGED <<last_resp, repeated>>

\* the cycle up to its first await; an empty explicit list returns at once
Begin ==
    IF Explicit /\ Len(items) = 0
    THEN Published(ReturnData(InitialData), <<>>)
    ELSE /\ local' = InitialData
         /\ idx' = 1
         /\ resp' = <<>>
         /\ pc' = "fetching"
         /\ data' = DataDuringCycle(data, InitialData)
         /\ UNCHANGED <<last_update, last_resp, repeated>>

\* await coordinator.async_refresh() in async_setup_platform
FirstRefresh ==
    /\ pc = "start"
    /\ Begin
    /\ answer' = NoAnswer
    /\ observed' = NoRead
    /\ UNCHANGED <<items, setup, entities, ticks>>

\* the coordinator's timer fires (it is armed only while entities listen)
Tick ==
    /\ pc = "idle"
    /\ Len(entities) > 0
    /\ ticks < MaxTicks
    /\ ticks' = ticks + 1
    /\ Begin
    /\ answer' = NoAnswer
    /\ observed' = NoRead
    /\ UNCHANGED <<items, setup, entities>>

\* one get_item call of the explicit loop comes back
FetchItem ==
    /\ pc = "fetching"
    /\ Explicit
    /\ \E r \in GetItemResponses :
        /\ answer' = [kind |-> "get_item", r |-> r]
        /\ IF ~r.ok THEN Failed(r.exc)
           ELSE LET loc == StoreItem(local, items[idx], r.v)
                    got == Append(resp, r.v)
                IN  IF idx = Len(items)
                    THEN Published(ReturnData(loc), got)
                    ELSE /\ local' = loc
                         /\ resp' = got
                         /\ idx' = idx + 1
                         /\ data' = DataDuringCycle(data, loc)
                         /\ UNCHANGED <<pc, last_update, last_resp, repeated>>
    /\ observed' = NoRead
    /\ UNCHANGED <<items, setup, entities, ticks>>

\* the get_favorites call comes back
FetchFavorites ==
    /\ pc = "fetching"
    /\ ~Explicit
    /\ \E r \in GetFavoritesResponses :
        /\ answer' = [kind |-> "get_favorites", r |-> r]
        /\ LET built == Bind(r, LAMBDA favorites :
                        Bind(PyIter(favorites), LAMBDA seq :
                             StoreFavorites(local, seq, 1)))
           IN  IF built.ok THEN Published(ReturnData(built.v), <<r.v>>)
               ELSE Failed(built.exc)
    /\ observed' = NoRead
    /\ UNCHANGED <<items, setup, entities, ticks>>

---------------------------------------------------------------------------
(* async_setup_platform, after the first refresh *)

\* for item_id in item: if item_id in coordinator.data: entities.append(TGTGSensor(...))
RECURSIVE ExplicitEntities(_, _, _, _)
ExplicitEntities(d, ids, j, made) ==
    IF j > Len(ids) THEN Ok(made)
    ELSE Bind(SnapHas(ids[j], d), LAMBDA has :
            IF ~has THEN ExplicitEntities(d, ids, j + 1, made)
            ELSE Bind(TGTGSensor(d, ids[j]), LAMBDA sensor :
                      ExplicitEntities(d, ids, j + 1, Append(made, sensor))))

\* for item_id in coordinator.data: if item_id != "orders": entities.append(...)
\* inside try / except (KeyError, TypeError), which keeps the entities made so far
RECURSIVE FavoriteEntities(_, _, _, _)
FavoriteEntities(d, keys, j, made) ==
    IF j > Len(keys) THEN Ok(made)
    ELSE IF PyEq(keys[j], ORDERS) THEN FavoriteEntities(d, keys, j + 1, made)
    ELSE LET sensor == TGTGSensor(d, keys[j])
         IN  IF sensor.ok
             THEN FavoriteEntities(d, keys, j + 1, Append(made, sensor.v))
             ELSE Except(sensor, {"KeyError", "TypeError"}, made)

\* the entities handed to add_entities, or the error that leaves the setup
CreateEntities(d, ids) ==
    IF ids # Favorites THEN ExplicitEntities(d, ids, 1, <<>>)
    ELSE IF d.t = "dict" THEN FavoriteEntities(d, d.o, 1, <<>>)
    ELSE Except(Raise("TypeError", "'NoneType' object is not iterable"),
                {"KeyError", "TypeError"}, <<>>)

SetupEntities ==
    /\ pc = "entities"
    /\ LET made == CreateEntities(data, items)
       IN  /\ entities' = IF made.ok THEN made.v ELSE <<>>
           /\ setup' = IF made.ok THEN [status |-> "done", exc |-> NoError]
                       ELSE [status |-> "raised", exc |-> made.exc]
    /\ pc' = "idle"
    /\ observed' = NoRead
    /\ answer' = NoAnswer
    /\ UNCHANGED <<items, data, last_update, local, idx, resp, last_resp,
                   repeated, ticks>>

\* the platform reads a registered sensor's state and attributes
ReadSensor ==
    /\ pc \in {"idle", "fetching"}
    /\ \E j \in 1..Len(entities) :
        observed' = [kind |-> "read", item_id |-> entities[j].item_id,
                     value |-> native_value(data, entities[j].item_id),
                     attrs |-> extra_state_attributes(data, entities[j].item_id)]
    /\ answer' = NoAnswer
    /\ UNCHANGED <<items, data, last_update, pc, local, idx, resp, last_resp,
                   repeated, setup, entities, ticks>>

Init ==
    /\ items \in ItemConfigs
    /\ data = NoneV
    /\ last_update = [status |-> "none", msg |-> ""]
    /\ pc = "start"
    /\ local = NewDict
    /\ idx = 0
    /\ resp = <<>>
    /\ last_resp = <<>>
    /\ answer = NoAnswer
    /\ repeated = FALSE
    /\ setup = [status |-> "pending", exc |-> NoError]
    /\ entities = <<>>
    /\ ticks = 0
    /\ observed = NoRead

Next ==
    \/ FirstRefresh
    \/ Tick
    \/ FetchItem
    \/ FetchFavorites
    \/ SetupEntities
    \/ ReadSensor

Spec == Init /\ [][Next]_vars


---------------------------------------------------------------------------
(* Properties of the refresh cycle and the platform setup *)

\* the favorite p has no item.item_id to key it by
LacksItemId(p) ==
    \/ p.t # "dict"
    \/ "item" \notin DOMAIN p.d
    \/ p.d["item"].t # "dict"
    \/ "item_id" \notin DOMAIN p.d["item"].d

\* the upstream call of the step just taken raised, or answered a favorite without item.item_id
UpstreamFailed ==
    /\ answer.kind # "none"
    /\ \/ ~answer.r.ok
       \/ /\ answer.kind = "get_favorites"
          /\ answer.r.v.t = "list"
          /\ \E j \in 1..Len(answer.r.v.l) : LacksItemId(answer.r.v.l[j])

\* C1: a cycle in which an upstream call raises (or a favorite lacks item.item_id) ends
\* as an update failure whose message carries the upstream error's message, and leaves
\* coordinator.data as it was; data changes only in a step that ends a cycle successfully.
C1_FailedCycleKeepsData ==
    [][ /\ UpstreamFailed' =>
            /\ last_update'.status = "failed"
            /\ data' = data
            /\ pc' # "fetching"
            /\ ~answer'.r.ok =>
                 last_update'.msg = "Error communicating with TGTG API: " \o answer'.r.exc.msg
        /\ data' # data => (last_update'.status = "ok" /\ pc' # "fetching" /\ ~UpstreamFailed')
      ]_vars

\* a periodic cycle failed and the snapshot of the earlier cycle is still exposed
C1_Witness ==
    /\ UpstreamFailed
    /\ ticks > 0
    /\ last_update.status = "failed"
    /\ data.t = "dict"

\* the last position of identifier id in the configured list
LastIndexOf(id) == CHOOSE j \in 1..Len(items) :
                        items[j] = id /\ \A k \in (j + 1)..Len(items) : items[k] # id

\* C2: in explicit mode coordinator.data, whenever sensors can read it, is the complete
\* snapshot of one finished cycle: every configured identifier is a key and holds what
\* that cycle's get_item answered, also while the next cycle is half way through its loop.
C2_NoPartialSnapshot ==
    (Explicit /\ data.t = "dict") =>
        /\ Len(last_resp) = Len(items)
        /\ \A j \in 1..Len(items) :
              /\ items[j] \in DOMAIN data.d
              /\ data.d[items[j]] = last_resp[LastIndexOf(items[j])]

\* a sensor was read while the running cycle had written one of two listings
C2_Witness ==
    /\ Explicit
    /\ pc = "fetching"
    /\ observed.kind = "read"
    /\ idx = 2
    /\ Len(items) = 2
    /\ items[2] \notin DOMAIN local.d
    /\ data.t = "dict"

\* C3: after a successful explicit cycle the snapshot's keys are the requested identifiers
\* plus "orders", each identifier holds what get_item answered for it, and "orders" holds
\* the empty placeholder -- for every list, also one that names "orders".
C3_ExplicitSnapshot ==
    (Explicit /\ data.t = "dict") =>
        /\ DOMAIN data.d = {items[j] : j \in 1..Len(items)} \cup {ORDERS}
        /\ \A j \in 1..Len(items) :
              \E k \in 1..Len(items) : items[k] = items[j] /\ data.d[items[j]] = last_resp[k]
        /\ data.d[ORDERS] = StrV("")

\* the favorites the snapshot was built from
LastFavorites == last_resp[1].l

\* item.item_id of the favorite at position j
FavoriteId(j) == LastFavorites[j].d["item"].d["item_id"]

PlainConfig == \A j \in 1..Len(items) : items[j] # ORDERS

\* C5: reading native_value or extra_state_attributes never raises (stated for the
\* configurations whose identifiers do not collide with the "orders" key).
C5_ReadsNeverRaise ==
    (PlainConfig /\ observed.kind = "read") => (observed.value.ok /\ observed.attrs.ok)

\* the identifiers the setup resolves from the first snapshot
ResolvedIds ==
    IF Explicit THEN {items[j] : j \in 1..Len(items)} ELSE DOMAIN data.d \ {ORDERS}

\* C7: after a successful first fetch the setup does not raise and has made a sensor for
\* every resolved listing, whether or not its payload has display_name.
C7_SensorForEveryListing ==
    (PlainConfig /\ setup.status # "pending" /\ ticks = 0 /\ data.t = "dict") =>
        /\ setup.status = "done"
        /\ \A id \in ResolvedIds : \E j \in 1..Len(entities) : entities[j].item_id = id

\* the step in which a cycle ends successfully
CycleSucceeds ==
    /\ last_update'.status = "ok"
    /\ pc' # "fetching"
    /\ pc = "fetching" \/ ticks' # ticks \/ pc = "start"

\* C9: a successful cycle that receives the responses of the cycle that produced the
\* current snapshot produces an equal snapshot.
C9_Idempotent ==
    [][ (CycleSucceeds /\ data.t = "dict" /\ last_resp' = last_resp) => DictEq(data', data)
      ]_vars

\* two successful cycles in a row received the same, non-empty responses
C9_Witness ==
    /\ repeated
    /\ ticks > 0
    /\ last_update.status = "ok"
    /\ Cardinality(DOMAIN data.d) > 1

\* C10: when the first fetch fails the setup still completes without raising and
\* registers no entity.
C10_FailedFirstFetch ==
    (setup.status # "pending" /\ data.t = "none") =>
        (setup.status = "done" /\ Len(entities) = 0)


---------------------------------------------------------------------------
(* The sensor projections on their own: a sensor bound to one identifier reads a   *)
(* snapshot holding one listing payload and an orders value drawn from bounded sets *)

\* item_price without minor_units, everything else in place
PartialPrice42 ==
    DictV([display_name |-> StrV("Bakery X"), items_available |-> IntV(3),
           item |-> DictV([item_id |-> StrV("42"),
                           item_price |-> DictV([decimals |-> IntV(2),
                                                 code |-> StrV("EUR")])]),
           pickup_interval |-> DictV([start |-> StrV("18:00"), end |-> StrV("19:00")]),
           sold_out_at |-> StrV("17:00")])

\* logo_picture without current_url
NoLogoUrl7 ==
    DictV([display_name |-> StrV("Bakery X"),
           item |-> DictV([item_id |-> StrV("7"), logo_picture |-> EmptyDict]),
           sold_out_at |-> StrV("17:00")])

\* item_value without code
NoCode42 ==
    DictV([item |-> DictV([item_id |-> StrV("42"),
                           item_value |-> DictV([minor_units |-> IntV(250),
                                                 decimals |-> IntV(2)])]),
           pickup_interval |-> DictV([start |-> StrV("18:00")])])

\* minor_units and decimals given as numerals
NumeralPrice7 ==
    DictV([items_available |-> IntV(5),
           item |-> DictV([item_price |-> DictV([minor_units |-> StrV("25"),
                                                 decimals |-> StrV("1"),
                                                 code |-> StrV("EUR")])])])

\* item of the wrong type
ItemNone == DictV([display_name |-> StrV("Bakery X"), item |-> NoneV,
                   sold_out_at |-> StrV("17:00")])

\* no item at all
PickupOnly == DictV([pickup_interval |-> DictV([end |-> StrV("19:00")])])

AttrPayloads ==
    {Full42, Plain7, NoName42, BadPrice7, NoItemId, PartialPrice42, NoLogoUrl7,
     NoCode42, NumeralPrice7, ItemNone, PickupOnly, NoneV}

OrderRecords ==
    { DictV([item_id |-> StrV("42"), quantity |-> IntV(2)]),
      DictV([item_id |-> StrV("42"), quantity |-> IntV(1),
             cancel_until |-> StrV("16:00"), pickup_window_changed |-> StrV("no")]),
      DictV([item_id |-> StrV("7"), quantity |-> IntV(5)]),
      DictV([item_id |-> IntV(42), quantity |-> IntV(4)]),
      DictV([item_id |-> StrV("42")]),
      DictV([quantity |-> IntV(3)]),
      DictV([item_id |-> StrV("42"), quantity |-> NoneV]) }

\* the values of the "orders" key: the placeholder, or a sequence of order records
OrdersValues ==
    {StrV("")} \cup {ListV(q) : q \in SeqsUpTo(OrderRecords, MaxOrders)}

\* the identifiers a sensor is bound to: config strings and YAML integers
SensorIds == {StrV("42"), IntV(42), StrV("7")}

InitAttrs ==
    \E id \in SensorIds, p \in AttrPayloads, orders \in OrdersValues :
        /\ items = <<id>>
        /\ data = SnapPut(SnapPut(NewDict, ORDERS, orders), id, p)
        /\ last_update = [status |-> "ok", msg |-> ""]
        /\ pc = "idle"
        /\ local = NewDict
        /\ idx = 0
        /\ resp = <<>>
        /\ last_resp = <<p>>
        /\ answer = NoAnswer
        /\ repeated = FALSE
        /\ setup = [status |-> "done", exc |-> NoError]
        /\ entities = <<[item_id |-> id, store_name |-> StrV("Bakery X")]>>
        /\ ticks = MaxTicks
        /\ observed = NoRead

NextAttrs == ReadSensor

SpecAttrs == InitAttrs /\ [][NextAttrs]_vars

\* the payload and the orders the sensor of the last read looked at
ReadPayload == data.d[observed.item_id]
ReadOrders == IF data.d[ORDERS].t = "list" THEN data.d[ORDERS].l ELSE <<>>

\* p[f] is there and is a dict
HasDict(p, f) == p.t = "dict" /\ f \in DOMAIN p.d /\ p.d[f].t = "dict"

\* p[f][g] is there
HasNested(p, f, g) == HasDict(p, f) /\ g \in DOMAIN p.d[f].d

\* every part of the payload that is there has the type the derivation expects
WellTyped(p) ==
    /\ p.t = "dict"
    /\ \A f \in {"item", "pickup_interval"} : f \in DOMAIN p.d => p.d[f].t = "dict"
    /\ HasDict(p, "item") =>
          LET item == p.d["item"] IN
          /\ \A f \in {"item_price", "item_value"} :
                f \in DOMAIN item.d =>
                    /\ item.d[f].t = "dict"
                    /\ \A g \in {"minor_units", "decimals"} :
                          g \in DOMAIN item.d[f].d => item.d[f].d[g].t = "int"
                    /\ "code" \in DOMAIN item.d[f].d => item.d[f].d["code"].t = "str"
          /\ \A f \in {"logo_picture", "cover_picture"} :
                f \in DOMAIN item.d => item.d[f].t = "dict"

\* an amount or a picture of the payload is there without one of its parts
IncompleteNested(p) ==
    /\ HasDict(p, "item")
    /\ LET item == p.d["item"] IN
       \/ \E f \in {"item_price", "item_value"} :
             /\ HasDict(item, f)
             /\ ~({"minor_units", "decimals", "code"} \subseteq DOMAIN item.d[f].d)
       \/ \E f \in {"logo_picture", "cover_picture"} :
             /\ HasDict(item, f)
             /\ "current_url" \notin DOMAIN item.d[f].d

\* the orders are records whose quantity, where given, is an integer
WellTypedOrders ==
    \A j \in 1..Len(ReadOrders) :
        /\ ReadOrders[j].t = "dict"
        /\ "quantity" \in DOMAIN ReadOrders[j].d => ReadOrders[j].d["quantity"].t = "int"

Matches(j) ==
    /\ ReadOrders[j].t = "dict"
    /\ "item_id" \in DOMAIN ReadOrders[j].d
    /\ ReadOrders[j].d["item_id"] = StrV(ToStr(observed.item_id))

\* the quantities of the sensor's orders from position j on, summed
RECURSIVE QuantityFrom(_)
QuantityFrom(j) ==
    IF j > Len(ReadOrders) THEN 0
    ELSE (IF Matches(j) /\ "quantity" \in DOMAIN ReadOrders[j].d
          THEN ReadOrders[j].d["quantity"].i ELSE 0) + QuantityFrom(j + 1)

\* C8: the attribute set reports orders_placed = the number of orders whose item_id
\* equals the sensor's identifier as a string, and total_quantity_ordered = the sum of
\* their quantities, the latter only when the sum is positive; it does so whenever the
\* payload and the orders are well formed.
C8_OrdersAggregated ==
    observed.kind = "read" =>
        LET r == observed.attrs
            placed == Cardinality({j \in 1..Len(ReadOrders) : Matches(j)})
        IN  /\ (WellTyped(ReadPayload) /\ ~IncompleteNested(ReadPayload) /\ WellTypedOrders)
                  => (r.ok /\ ATTR_ORDERS_PLACED \in DOMAIN r.v)
            /\ (r.ok /\ DOMAIN r.v # {}) =>
                  /\ r.v[ATTR_ORDERS_PLACED] = IntV(placed)
                  /\ ATTR_TOTAL_QUANTITY_ORDERED \in DOMAIN r.v <=> QuantityFrom(1) > 0
                  /\ QuantityFrom(1) > 0 =>
                        r.v[ATTR_TOTAL_QUANTITY_ORDERED] = IntV(QuantityFrom(1))

\* three orders, two of them the sensor's with quantities 2 and 1: orders_placed is 2
\* and total_quantity_ordered is 3
C8_Witness ==
    /\ observed.kind = "read"
    /\ Len(ReadOrders) = 3
    /\ Cardinality({j \in 1..3 : Matches(j)}) = 2
    /\ observed.attrs.ok
    /\ ATTR_TOTAL_QUANTITY_ORDERED \in DOMAIN observed.attrs.v
    /\ observed.attrs.v[ATTR_ORDERS_PLACED] = IntV(2)
    /\ observed.attrs.v[ATTR_TOTAL_QUANTITY_ORDERED] = IntV(3)

=============================================================================
